---- MODULE Spec2Model ----
(***************************************************************************)
(* Model of app.py: the carrier validator (validate_mc_number) and the     *)
(* load lookup (get_load_details) behind their two FastAPI endpoints.      *)
(*                                                                         *)
(* Strings the code inspects character by character (the MC number, the    *)
(* reference number) are sequences of one-character strings.  JSON values  *)
(* of the registry body are records [t, v, m]: t is the JSON type, v the   *)
(* text of a scalar, m the key/value map of an object.  Every handler is   *)
(* one atomic step: the endpoints are `async def` bodies that call the     *)
(* synchronous handler, so the event loop runs one handler at a time.      *)
(***************************************************************************)
EXTENDS Integers, Sequences, FiniteSets, TLC

VARIABLES upstream, dataset, request, last, kept

vars == <<upstream, dataset, request, last, kept>>

(***************************************************************************)
(* Bounds                                                                  *)
(***************************************************************************)
MaxLen == 4

MaxRows == 2

(***************************************************************************)
(* Python string operations used by validate_mc_number                     *)
(***************************************************************************)
Alphabet == {"M", "C", "-", "m", "c", "1", " ", "A"}

Digits == {"0", "1", "2", "3", "4", "5", "6", "7", "8", "9"}

Whitespace == {" "}

upper_char(c) ==
    CASE c = "m" -> "M"
      [] c = "c" -> "C"
      [] c = "a" -> "A"
      [] OTHER -> c

upper(s) == [i \in 1..Len(s) |-> upper_char(s[i])]

RECURSIVE replace_mc(_)
replace_mc(s) ==
    IF Len(s) < 3 THEN s
    ELSE IF SubSeq(s, 1, 3) = <<"M", "C", "-">>
         THEN replace_mc(SubSeq(s, 4, Len(s)))
         ELSE <<Head(s)>> \o replace_mc(Tail(s))

RECURSIVE lstrip(_)
lstrip(s) ==
    IF s # <<>> /\ Head(s) \in Whitespace THEN lstrip(Tail(s)) ELSE s

RECURSIVE rstrip(_)
rstrip(s) ==
    IF s # <<>> /\ s[Len(s)] \in Whitespace
    THEN rstrip(SubSeq(s, 1, Len(s) - 1))
    ELSE s

strip(s) == rstrip(lstrip(s))

\* A variant of isdigit that also accepts the empty string.
isdigit_any(s) == \A i \in 1..Len(s) : s[i] \in Digits

isdigit(s) == Len(s) > 0 /\ \A i \in 1..Len(s) : s[i] \in Digits

clean_mc(mc_number) == strip(replace_mc(upper(mc_number)))

startswith(s, prefix) ==
    Len(s) >= Len(prefix) /\ SubSeq(s, 1, Len(prefix)) = prefix

(***************************************************************************)
(* JSON values of the registry body, and the dict operations on them       *)
(***************************************************************************)
NoMap == [k \in {} |-> ""]

Null == [t |-> "null", v |-> "", m |-> NoMap]

Str(s) == [t |-> "str", v |-> s, m |-> NoMap]

Num(s) == [t |-> "int", v |-> s, m |-> NoMap]

List == [t |-> "list", v |-> "[1]", m |-> NoMap]

Obj(map) == [t |-> "obj", v |-> "", m |-> map]

EmptyObj == Obj(NoMap)

Truthy(x) ==
    CASE x.t = "null" -> FALSE
      [] x.t = "str" -> x.v # ""
      [] x.t = "int" -> x.v # "0"
      [] x.t = "list" -> x.v # "[]"
      [] x.t = "obj" -> DOMAIN x.m # {}

HasGet(x) == x.t = "obj"

Get(x, key, default) == IF key \in DOMAIN x.m THEN x.m[key] ELSE default

PyStr(x) == IF x.t = "int" THEN Str(x.v) ELSE x

(***************************************************************************)
(* Outcomes of a handler: a returned value or a raised exception.  origin  *)
(* is the class of the exception first raised, caught the except clause    *)
(* that turned it into the HTTPException that leaves the handler.          *)
(***************************************************************************)
NoValue == [success |-> FALSE]

Msg(text, arg) == [text |-> text, arg |-> arg]

GenericDetail ==
    Msg("An unexpected error occurred while processing your request", <<>>)

ExcText(cls) == <<cls>>

Return(value, trace, calls) ==
    [kind |-> "return", status_code |-> 200, detail |-> Msg("", <<>>),
     value |-> value, origin |-> "none", caught |-> "none",
     trace |-> trace, calls |-> calls]

RaiseHTTP(status_code, detail, trace, calls) ==
    [kind |-> "raise", status_code |-> status_code, detail |-> detail,
     value |-> NoValue, origin |-> "HTTPException", caught |-> "none",
     trace |-> trace, calls |-> calls]

InnerExcept(cls, status_code, detail, trace, calls) ==
    [kind |-> "raise", status_code |-> status_code, detail |-> detail,
     value |-> NoValue, origin |-> cls, caught |-> "inner",
     trace |-> trace, calls |-> calls]

\* A variant of the catch-all that puts str(e) in the message.
OuterExceptLeaky(cls, trace, calls) ==
    [kind |-> "raise", status_code |-> 500,
     detail |-> Msg("Unexpected error: ", ExcText(cls)),
     value |-> NoValue, origin |-> cls, caught |-> "outer",
     trace |-> trace, calls |-> calls]

OuterExcept(cls, trace, calls) ==
    [kind |-> "raise", status_code |-> 500, detail |-> GenericDetail,
     value |-> NoValue, origin |-> cls, caught |-> "outer",
     trace |-> trace, calls |-> calls]

(***************************************************************************)
(* validate_mc_number                                                      *)
(***************************************************************************)
FMCSA_API_KEY == "webkey"

InvalidJSON == [t |-> "invalid", v |-> "", m |-> NoMap]

Answer(transport, status_code, body) ==
    [transport |-> transport, status_code |-> status_code, body |-> body]

StatusText(code) == <<ToString(code)>>

\* A variant of carrier_name without the dbaName fallback.
carrier_name_no_fallback(carrier_data) ==
    Get(carrier_data, "legalName", Str(""))

carrier_name(carrier_data) ==
    Get(carrier_data, "legalName", Get(carrier_data, "dbaName", Str("")))

dot_number(carrier_data) == Get(carrier_data, "dotNumber", Null)

is_authorized(carrier_data) ==
    Get(carrier_data, "allowedToOperate", Null) = Str("Y")

\* A variant of status_reason that tests the authorization flag first.
status_reason_flag_first(carrier_data) ==
    IF ~is_authorized(carrier_data) THEN Str("Not Authorized to Operate")
    ELSE IF Truthy(Get(carrier_data, "oosDate", Null))
         THEN Str("Out of Service")
         ELSE Null

status_reason(carrier_data) ==
    IF Truthy(Get(carrier_data, "oosDate", Null)) THEN Str("Out of Service")
    ELSE IF ~is_authorized(carrier_data)
         THEN Str("Not Authorized to Operate")
         ELSE Null

CarrierResponse(clean, carrier_data) ==
    [success |-> TRUE,
     data |->
       [carrier |->
          [carrier_id |-> PyStr(dot_number(carrier_data)),
           status |-> IF is_authorized(carrier_data)
                      THEN "Active" ELSE "Inactive",
           carrier_name |-> carrier_name(carrier_data),
           dot_number |-> PyStr(dot_number(carrier_data)),
           mc_number |-> clean,
           status_reason |-> status_reason(carrier_data)],
        transfer_contact |-> Null,
        next_steps |-> [confirm |-> carrier_name(carrier_data)]]]

\* Lines 116-169: the parsed body, from the presence check to the response.
extract_carrier(clean, data, trace) ==
    IF ~HasGet(data) THEN OuterExcept("AttributeError", trace, 1)
    ELSE IF ~Truthy(Get(data, "content", EmptyObj))
    THEN RaiseHTTP(404, Msg("No carrier data found for MC number: ", clean),
                   trace, 1)
    ELSE IF ~HasGet(Get(data, "content", EmptyObj))
    THEN OuterExcept("AttributeError", trace \o <<"carrier">>, 1)
    ELSE LET carrier_data ==
                 Get(Get(data, "content", EmptyObj), "carrier", EmptyObj)
             t2 == trace \o <<"carrier", "fields">>
         IN  IF ~HasGet(carrier_data)
             THEN OuterExcept("AttributeError", t2, 1)
             ELSE IF ~Truthy(carrier_name(carrier_data))
                     \/ ~Truthy(dot_number(carrier_data))
             THEN RaiseHTTP(502,
                    Msg("Incomplete carrier data received from FMCSA API",
                        <<>>), t2, 1)
             ELSE Return(CarrierResponse(clean, carrier_data), t2, 1)

\* A variant of status_mapping that hands the registry's status through.
status_mapping_passthrough(clean, response, trace) ==
    IF response.status_code # 200
    THEN RaiseHTTP(response.status_code,
                   Msg("FMCSA API error: ",
                       StatusText(response.status_code)), trace, 1)
    ELSE Return(NoValue, trace, 1)

\* Lines 93-107: the status code of a received response.
status_mapping(clean, response, trace) ==
    IF response.status_code = 404
    THEN RaiseHTTP(404, Msg("Carrier with MC number not found: ", clean),
                   trace, 1)
    ELSE IF response.status_code = 401
    THEN RaiseHTTP(502, Msg("Invalid FMCSA API key", <<>>), trace, 1)
    ELSE IF response.status_code # 200
    THEN RaiseHTTP(502, Msg("FMCSA API error: ",
                            StatusText(response.status_code)), trace, 1)
    ELSE Return(NoValue, trace, 1)

\* Lines 76-179: the guarded body, the one outbound call first.
call_registry(clean, up, trace) ==
    LET t1 == trace \o <<"get">>
    IN  IF up.transport = "timeout"
        THEN InnerExcept("Timeout", 504,
                         Msg("FMCSA API request timed out", <<>>), t1, 1)
        ELSE IF up.transport # "ok"
        THEN InnerExcept("RequestException", 502,
                         Msg("Error connecting to FMCSA API: ",
                             ExcText("RequestException")), t1, 1)
        ELSE LET mapped == status_mapping(clean, up, t1 \o <<"status">>)
                 t3 == t1 \o <<"status", "json">>
             IN  IF mapped.kind = "raise" THEN mapped
                 ELSE IF up.body.t = "invalid"
                 THEN InnerExcept("ValueError", 502,
                        Msg("Invalid JSON response from FMCSA API", <<>>),
                        t3, 1)
                 ELSE extract_carrier(clean, up.body, t3 \o <<"content">>)

validate_mc_number(mc_number, up) ==
    IF FMCSA_API_KEY = ""
    THEN RaiseHTTP(500, Msg("FMCSA API key not configured", <<>>),
                   <<"key">>, 0)
    ELSE IF mc_number = <<>>
    THEN RaiseHTTP(400, Msg("MC number is required", <<>>),
                   <<"key", "empty">>, 0)
    ELSE IF ~isdigit(clean_mc(mc_number))
    THEN RaiseHTTP(400, Msg("Invalid MC number format", <<>>),
                   <<"key", "empty", "digits">>, 0)
    ELSE call_registry(clean_mc(mc_number), up,
                       <<"key", "empty", "digits">>)

(***************************************************************************)
(* get_load_details                                                        *)
(*                                                                         *)
(* The dataset file is [file, columns, rows]: file is the state of         *)
(* loads.csv as pd.read_csv meets it, columns the header, rows the data    *)
(* rows in file order.  A row is [reference_number, nan, rate]: nan is the *)
(* set of columns whose cell read_csv gives as NaN, rate the kind of text  *)
(* in the rate cell ("num" converts with float(), "text" does not).        *)
(***************************************************************************)
required_fields ==
    <<"reference_number", "origin", "destination", "equipment_type",
      "rate", "commodity">>

Fields == {required_fields[i] : i \in 1..Len(required_fields)}

LOAD == <<"L", "O", "A", "D">>

matching_rows(ds, reference_number) ==
    SelectSeq(ds.rows, LAMBDA row : row.reference_number = reference_number)

\* A variant of first_row that takes the last matching row.
last_row(load) == load[Len(load)]

first_row(load) == load[1]

in_load_data(ds, field) == field \in ds.columns

isna(row, field) == field \in row.nan

missing_fields(ds, row) ==
    SelectSeq(required_fields,
              LAMBDA field : ~in_load_data(ds, field) \/ isna(row, field))

LoadDetails(row) ==
    [reference_number |-> row.reference_number,
     origin |-> "origin", destination |-> "destination",
     equipment_type |-> "equipment_type", rate |-> "float(rate)",
     commodity |-> "commodity"]

LoadResponse(row) ==
    [success |-> TRUE, data |-> LoadDetails(row), error |-> Null]

\* Lines 225-258: the matched row, from to_dict() to the response.
build_load(ds, row, trace) ==
    IF missing_fields(ds, row) # <<>>
    THEN RaiseHTTP(500, Msg("Missing required fields in load data: ",
                            missing_fields(ds, row)), trace, 0)
    ELSE IF row.rate = "text"
    THEN InnerExcept("ValueError", 500,
                     Msg("Error processing load data: ",
                         ExcText("ValueError")), trace \o <<"coerce">>, 0)
    ELSE Return(LoadResponse(row), trace \o <<"coerce">>, 0)

\* Lines 209-223: the format check and the keyed lookup.
find_load(reference_number, ds, trace) ==
    LET t1 == trace \o <<"format">>
        t2 == t1 \o <<"lookup">>
    IN  IF ~startswith(reference_number, LOAD)
        THEN RaiseHTTP(400, Msg("Invalid reference number format", <<>>),
                       t1, 0)
        ELSE IF "reference_number" \notin ds.columns
        THEN OuterExcept("KeyError", t2, 0)
        ELSE IF matching_rows(ds, reference_number) = <<>>
        THEN RaiseHTTP(404, Msg("Load not found: ", reference_number), t2, 0)
        ELSE build_load(ds, first_row(matching_rows(ds, reference_number)),
                        t2 \o <<"fields">>)

get_load_details(reference_number, ds) ==
    IF ds.file = "absent"
    THEN RaiseHTTP(503, Msg("Load data file not available", <<>>),
                   <<"exists">>, 0)
    ELSE IF ds.file = "empty"
    THEN InnerExcept("EmptyDataError", 503,
                     Msg("Load data file is empty", <<>>),
                     <<"exists", "read_csv">>, 0)
    ELSE IF ds.file = "malformed"
    THEN InnerExcept("ParserError", 503,
                     Msg("Error parsing load data file", <<>>),
                     <<"exists", "read_csv">>, 0)
    ELSE IF ds.file = "undecodable"
    THEN OuterExcept("UnicodeDecodeError", <<"exists", "read_csv">>, 0)
    ELSE find_load(reference_number, ds, <<"exists", "read_csv">>)

(***************************************************************************)
(* The HTTP boundary: a returned model is the body of a 200, a raised      *)
(* HTTPException becomes its status code with the body {"detail": ...}.    *)
(***************************************************************************)
NoEntry ==
    [handler |-> "none", input |-> <<>>, env |-> Null, status |-> 0,
     body |-> [kind |-> "none"], origin |-> "none", caught |-> "none",
     trace |-> <<>>, calls |-> 0]

Deliver(handler, input, env, result) ==
    [handler |-> handler, input |-> input, env |-> env,
     status |-> result.status_code,
     body |-> IF result.kind = "return"
              THEN [kind |-> "model", model |-> result.value]
              ELSE [kind |-> "detail", detail |-> result.detail],
     origin |-> result.origin, caught |-> result.caught,
     trace |-> result.trace, calls |-> result.calls]

\* A variant of validate_carrier that reuses the previous response when the
\* identifier is the same as in the previous call.
validate_carrier_memo(mc_number) ==
    /\ last' = IF last.handler = "validate_carrier" /\ last.input = mc_number
               THEN [last EXCEPT !.env = upstream]
               ELSE Deliver("validate_carrier", mc_number, upstream,
                            validate_mc_number(mc_number, upstream))
    /\ UNCHANGED <<upstream, dataset>>

validate_carrier(mc_number) ==
    /\ last' = Deliver("validate_carrier", mc_number, upstream,
                       validate_mc_number(mc_number, upstream))
    /\ UNCHANGED <<upstream, dataset>>

get_load(reference_number) ==
    /\ last' = Deliver("get_load", reference_number, dataset,
                       get_load_details(reference_number, dataset))
    /\ UNCHANGED <<upstream, dataset>>

(***************************************************************************)
(* The environment: what the registry answers and what loads.csv holds     *)
(***************************************************************************)
Absent == [t |-> "absent", v |-> "", m |-> NoMap]

CarrierKeys ==
    {"legalName", "dbaName", "dotNumber", "allowedToOperate", "oosDate"}

Present(f) == Obj([k \in {j \in DOMAIN f : f[j] # Absent} |-> f[k]])

CarrierObjects ==
    { Present([legalName |-> l, dbaName |-> d, dotNumber |-> n,
               allowedToOperate |-> a, oosDate |-> o]) :
        l \in {Absent, Null, Str(""), Str("ACME LLC")},
        d \in {Absent, Str(""), Str("ACME")},
        n \in {Absent, Null, Str(""), Num("12345"), Str("12345")},
        a \in {Absent, Str("Y"), Str("N")},
        o \in {Absent, Null, Str(""), Str("2020-01-01")} }

ContentValues ==
    {Absent, Null, Str(""), EmptyObj, Str("x"), List,
     Obj("other" :> Str("x"))}
      \cup { Obj("carrier" :> c) : c \in {Null, Str("x"), List, EmptyObj} }
      \cup { Obj("carrier" :> c) : c \in CarrierObjects }

Bodies ==
    {InvalidJSON, Null, List, Str("x")}
      \cup { Present([content |-> c]) : c \in ContentValues }

RegistryAnswers ==
    {Answer("timeout", 0, InvalidJSON), Answer("error", 0, InvalidJSON)}
      \cup { Answer("ok", code, InvalidJSON) : code \in {201, 401, 404, 500} }
      \cup { Answer("ok", 200, b) : b \in Bodies }

GoodCarrier ==
    Present([legalName |-> Str("ACME LLC"), dbaName |-> Absent,
             dotNumber |-> Num("12345"), allowedToOperate |-> Str("Y"),
             oosDate |-> Absent])

OosCarrier ==
    Present([legalName |-> Str("ACME LLC"), dbaName |-> Absent,
             dotNumber |-> Num("12345"), allowedToOperate |-> Str("Y"),
             oosDate |-> Str("2020-01-01")])

CarrierAnswer(c) ==
    Answer("ok", 200, Present([content |-> Obj("carrier" :> c)]))

DefaultAnswer == CarrierAnswer(GoodCarrier)

LOAD1 == LOAD \o <<"1">>

LOAD2 == LOAD \o <<"2">>

NanSets ==
    {{}} \cup { {f} : f \in Fields \ {"reference_number"} }
         \cup {{"origin", "rate"}}

Rows ==
    { [reference_number |-> r, nan |-> n, rate |-> "num"] :
        r \in {LOAD1, LOAD2}, n \in NanSets }
      \cup { [reference_number |-> r, nan |-> {}, rate |-> "text"] :
               r \in {LOAD1, LOAD2} }

ColumnSets ==
    {Fields} \cup { Fields \ {f} : f \in {"reference_number", "origin", "rate"} }

RowSeqs == UNION { [1..n -> Rows] : n \in 0..MaxRows }

File(state) == [file |-> state, columns |-> {}, rows |-> <<>>]

Table(columns, rows) ==
    [file |-> "valid", columns |-> columns, rows |-> rows]

Datasets ==
    { File(f) : f \in {"absent", "empty", "malformed", "undecodable"} }
      \cup { Table(c, r) : c \in ColumnSets, r \in RowSeqs }

GoodRow == [reference_number |-> LOAD1, nan |-> {}, rate |-> "num"]

DefaultDataset == Table(Fields, <<GoodRow>>)

McStrings == UNION { [1..n -> Alphabet] : n \in 0..MaxLen }

McInputs ==
    {<<>>, <<" ">>, <<"1">>, <<"A">>, <<"M", "C", "-", "1">>,
     <<"m", "c", "-", "1", " ">>}

RefInputs ==
    {LOAD, LOAD1, LOAD2, <<"L", "O", "A">>, <<"l", "o", "a", "d", "1">>,
     <<"X">> \o LOAD1}

(***************************************************************************)
(* Spec: both endpoints, over every registry answer and every dataset      *)
(***************************************************************************)
Init ==
    /\ \/ upstream \in RegistryAnswers /\ dataset = DefaultDataset
       \/ upstream = DefaultAnswer /\ dataset \in Datasets
    /\ request = <<>>
    /\ last = NoEntry
    /\ kept = NoEntry

CarrierRequest ==
    \E mc_number \in McInputs :
        validate_carrier(mc_number) /\ UNCHANGED <<request, kept>>

LoadRequest ==
    \E reference_number \in RefInputs :
        get_load(reference_number) /\ UNCHANGED <<request, kept>>

Next == CarrierRequest \/ LoadRequest

Spec == Init /\ [][Next]_vars

(***************************************************************************)
(* SpecInput: the carrier endpoint over every identifier of MaxLen         *)
(* characters or fewer; request is the identifier of the call to come      *)
(***************************************************************************)
InputAnswers ==
    {Answer("timeout", 0, InvalidJSON), Answer("ok", 404, InvalidJSON),
     DefaultAnswer}

InitInput ==
    /\ upstream \in InputAnswers
    /\ dataset = DefaultDataset
    /\ request \in McStrings
    /\ last = NoEntry
    /\ kept = NoEntry

AnyCarrierRequest ==
    validate_carrier(request) /\ UNCHANGED <<request, kept>>

NextInput == AnyCarrierRequest

SpecInput == InitInput /\ [][NextInput]_vars

(***************************************************************************)
(* SpecIdem: requests in any order while the registry's answer and the     *)
(* dataset file change between them; kept is an earlier response the       *)
(* caller still holds                                                      *)
(***************************************************************************)
IdemAnswers ==
    {Answer("timeout", 0, InvalidJSON), Answer("ok", 404, InvalidJSON),
     DefaultAnswer, CarrierAnswer(OosCarrier)}

IdemDatasets ==
    {File("absent"), DefaultDataset,
     Table(Fields, <<[GoodRow EXCEPT !.nan = {"rate"}], GoodRow>>)}

IdemMc == {<<"1">>, <<"M", "C", "-", "1">>, <<"A">>}

IdemRefs == {LOAD1, LOAD2, <<"X">>}

InitIdem ==
    /\ upstream \in IdemAnswers
    /\ dataset \in IdemDatasets
    /\ request = <<>>
    /\ last = NoEntry
    /\ kept = NoEntry

CarrierRequestIdem ==
    \E mc_number \in IdemMc :
        /\ validate_carrier(mc_number)
        /\ kept' \in {kept, last}
        /\ UNCHANGED request

LoadRequestIdem ==
    \E reference_number \in IdemRefs :
        /\ get_load(reference_number)
        /\ kept' \in {kept, last}
        /\ UNCHANGED request

RegistryChanges ==
    /\ upstream' \in IdemAnswers \ {upstream}
    /\ UNCHANGED <<dataset, request, last, kept>>

DatasetChanges ==
    /\ dataset' \in IdemDatasets \ {dataset}
    /\ UNCHANGED <<upstream, request, last, kept>>

NextIdem ==
    CarrierRequestIdem \/ LoadRequestIdem \/ RegistryChanges \/ DatasetChanges

SpecIdem == InitIdem /\ [][NextIdem]_vars

(***************************************************************************)
(* Properties                                                              *)
(***************************************************************************)
IsCarrierCall == last.handler = "validate_carrier"

IsLoadCall == last.handler = "get_load"

Elems(seq) == {seq[i] : i \in 1..Len(seq)}

\* The registry answered with status 200 and a body that parses.
Parsed200(up) ==
    up.transport = "ok" /\ up.status_code = 200 /\ up.body.t # "invalid"

\* A value counts as absent/empty: no such key, null, or the empty string.
IsBlank(x) == x \in {Absent, Null, Str("")}

Lookup(obj, key) == IF key \in DOMAIN obj.m THEN obj.m[key] ELSE Absent

\* C1: a status-200, parseable registry body without a content.carrier
\* section (content missing or empty, or content non-empty with no carrier
\* entry) always gives 404.
C1_NoCarrierSectionIsNotFound ==
    (/\ IsCarrierCall
     /\ last.calls = 1
     /\ Parsed200(last.env)
     /\ last.env.body.t = "obj"
     /\ \/ ~Truthy(Get(last.env.body, "content", EmptyObj))
        \/ /\ Lookup(last.env.body, "content").t = "obj"
           /\ "carrier" \notin DOMAIN Lookup(last.env.body, "content").m)
    => last.status = 404

\* C2: a reference number that does not start with "LOAD" gives 400 whatever
\* the state of the dataset file, and the format check is the first step:
\* no existence check or parse comes before it.
C2_BadPrefixIs400BeforeRead ==
    (IsLoadCall /\ ~startswith(last.input, LOAD))
    => /\ last.status = 400
       /\ "exists" \notin Elems(last.trace)
       /\ "read_csv" \notin Elems(last.trace)

\* C3: an identifier whose normalized form is empty or has a non-digit
\* character gives 400 with no outbound call, and an outbound call comes
\* only after the credential, empty-input and all-digits checks.
C3_BadFormatIs400WithoutCall ==
    IsCarrierCall =>
      /\ (\/ clean_mc(last.input) = <<>>
          \/ \E i \in 1..Len(clean_mc(last.input)) :
                 clean_mc(last.input)[i] \notin Digits)
         => /\ last.status = 400
            /\ last.calls = 0
            /\ "get" \notin Elems(last.trace)
      /\ "get" \in Elems(last.trace)
         => SubSeq(last.trace, 1, 4) = <<"key", "empty", "digits", "get">>

C3_Witness ==
    /\ IsCarrierCall
    /\ last.input = <<"M", "C", "-", "A">>
    /\ clean_mc(last.input) = <<"A">>
    /\ last.status = 400
    /\ last.calls = 0

HasOosDate(carrier) == ~IsBlank(Lookup(carrier, "oosDate"))

FlagIsY(carrier) == Lookup(carrier, "allowedToOperate") = Str("Y")

CarrierOf(up) == up.body.m["content"].m["carrier"]

IsCarrierSuccess == IsCarrierCall /\ last.body.kind = "model"

\* C4: in a success response status_reason is "Out of Service" exactly
\* when the carrier section has an out-of-service date, "Not Authorized to
\* Operate" exactly when it has none and the flag is not "Y", and null
\* exactly when it has none and the flag is "Y".
C4_StatusReason ==
    IsCarrierSuccess =>
      LET carrier == CarrierOf(last.env)
          reason == last.body.model.data.carrier.status_reason
      IN  /\ reason = Str("Out of Service") <=> HasOosDate(carrier)
          /\ reason = Str("Not Authorized to Operate")
               <=> (~HasOosDate(carrier) /\ ~FlagIsY(carrier))
          /\ reason = Null <=> (~HasOosDate(carrier) /\ FlagIsY(carrier))

C4_Witness ==
    /\ IsCarrierSuccess
    /\ HasOosDate(CarrierOf(last.env))
    /\ ~FlagIsY(CarrierOf(last.env))
    /\ last.body.model.data.carrier.status_reason = Str("Out of Service")

\* C5: every failure of the load lookup endpoint is a LoadResponse envelope
\* with success = false and error populated.
C5_FailureIsLoadResponse ==
    (IsLoadCall /\ last.status # 200)
    => /\ last.body.kind = "model"
       /\ last.body.model.success = FALSE
       /\ last.body.model.error # Null

\* The rows of a readable dataset whose reference_number equals the input.
RowsFor(ds, reference_number) ==
    IF "reference_number" \in ds.columns
    THEN matching_rows(ds, reference_number)
    ELSE <<>>

MissingIn(ds, row) == {f \in Fields : f \notin ds.columns \/ f \in row.nan}

LookupOutcome(ds) ==
    IF RowsFor(ds, last.input) = <<>>
    THEN last.status = 404
    ELSE LET row == RowsFor(ds, last.input)[1]
         IN  /\ last.status # 404
             /\ MissingIn(ds, row) # {}
                => /\ last.status = 500
                   /\ last.body.detail.text
                        = "Missing required fields in load data: "
                   /\ Elems(last.body.detail.arg) = MissingIn(ds, row)
                   /\ Len(last.body.detail.arg)
                        = Cardinality(MissingIn(ds, row))
             /\ (MissingIn(ds, row) = {} /\ row.rate = "num")
                => /\ last.status = 200
                   /\ last.body.model.data.reference_number = last.input

\* C6 as stated: for a "LOAD" reference number and a readable dataset, zero
\* matching rows give 404, and otherwise the first matching row decides:
\* any required field missing or NaN gives 500 listing exactly those fields.
C6_LookupAnyReadableDataset ==
    (IsLoadCall /\ startswith(last.input, LOAD) /\ last.env.file = "valid")
    => LookupOutcome(last.env)

\* C6 as amended: the same, for a readable dataset that has a
\* reference_number column.
C6_LookupWithKeyColumn ==
    (/\ IsLoadCall
     /\ startswith(last.input, LOAD)
     /\ last.env.file = "valid"
     /\ "reference_number" \in last.env.columns)
    => LookupOutcome(last.env)

C6_Witness ==
    /\ IsLoadCall
    /\ last.env.file = "valid"
    /\ "reference_number" \in last.env.columns
    /\ Len(RowsFor(last.env, last.input)) = 2
    /\ RowsFor(last.env, last.input)[1].nan = {"rate"}
    /\ RowsFor(last.env, last.input)[2].nan = {}
    /\ last.status = 500
    /\ last.body.detail.arg = <<"rate">>

SameCall ==
    /\ last.handler # "none"
    /\ kept.handler = last.handler
    /\ kept.input = last.input
    /\ kept.env = last.env

C8_OtherExceptionIsGeneric500 ==
    (last.handler # "none" /\ last.origin \notin {"none", "HTTPException"})
    => (last.status = 500 /\ last.body.detail = GenericDetail)

InnerMappings ==
    {<<"Timeout", 504>>, <<"RequestException", 502>>, <<"ValueError", 502>>,
     <<"EmptyDataError", 503>>, <<"ParserError", 503>>,
     <<"ValueError", 500>>}

\* C8 as amended: a typed domain error keeps its status and message; an
\* exception an inner except clause maps keeps that clause's status and
\* message; every other exception ends as 500 with the fixed generic
\* message, which carries no text of the exception.
C8_UnmappedExceptionIsGeneric500 ==
    last.handler # "none" =>
      /\ last.origin = "HTTPException"
         => /\ last.caught = "none"
            /\ last.status \in {400, 404, 500, 502, 503}
            /\ last.body.detail # GenericDetail
      /\ last.caught = "inner"
         => /\ <<last.origin, last.status>> \in InnerMappings
            /\ last.body.detail # GenericDetail
      /\ (last.origin \notin {"none", "HTTPException"}
            /\ last.caught # "inner")
         => /\ last.status = 500
            /\ last.body.detail = GenericDetail
            /\ last.origin \notin Elems(last.body.detail.arg)

C8_Witness ==
    /\ IsCarrierCall
    /\ Parsed200(last.env)
    /\ Lookup(last.env.body, "content") = Str("x")
    /\ last.origin = "AttributeError"
    /\ last.status = 500
    /\ last.body.detail = GenericDetail

\* The call reached field extraction: a parsed 200 whose content is a
\* non-empty object and whose carrier entry, if any, is an object.
ReachesFields ==
    /\ IsCarrierCall
    /\ last.calls = 1
    /\ Parsed200(last.env)
    /\ last.env.body.t = "obj"
    /\ Lookup(last.env.body, "content").t = "obj"
    /\ Lookup(last.env.body, "content").m # NoMap
    /\ Lookup(Lookup(last.env.body, "content"), "carrier").t
         \in {"absent", "obj"}

SectionOf(up) ==
    IF "carrier" \in DOMAIN up.body.m["content"].m
    THEN up.body.m["content"].m["carrier"]
    ELSE EmptyObj

NameOf(carrier) ==
    IF "legalName" \in DOMAIN carrier.m THEN carrier.m["legalName"]
    ELSE Lookup(carrier, "dbaName")

\* C9: the carrier name is the legal name, or the trade name if there is no
\* legal name; the call gives 502 exactly when that name or the DOT number
\* is absent/empty, and otherwise succeeds with carrier_name that name and
\* carrier_id = dot_number = the DOT number as a string.
C9_NameAndDotNumber ==
    ReachesFields =>
      LET carrier == SectionOf(last.env)
          name == NameOf(carrier)
          dot == Lookup(carrier, "dotNumber")
      IN  IF IsBlank(name) \/ IsBlank(dot)
          THEN last.status = 502
          ELSE /\ last.status = 200
               /\ last.body.model.data.carrier.carrier_name = name
               /\ last.body.model.data.carrier.carrier_id = Str(dot.v)
               /\ last.body.model.data.carrier.dot_number = Str(dot.v)

C9_Witness ==
    /\ ReachesFields
    /\ "legalName" \notin DOMAIN SectionOf(last.env).m
    /\ Lookup(SectionOf(last.env), "dotNumber") = Num("12345")
    /\ last.status = 200
    /\ last.body.model.data.carrier.carrier_name = Str("ACME")
    /\ last.body.model.data.carrier.carrier_id = Str("12345")

Count(seq, x) == Cardinality({i \in 1..Len(seq) : seq[i] = x})

\* C10: a request that passes input validation makes exactly one outbound
\* call, and the call's outcome alone decides the error class: timeout 504,
\* other transport failure 502, status 404 gives 404, 401 gives 502, any
\* other non-200 gives 502; only a 200 goes on to body parsing.
C10_OneCallDecides ==
    IsCarrierCall =>
      /\ last.calls = IF isdigit(clean_mc(last.input)) THEN 1 ELSE 0
      /\ Count(last.trace, "get") = last.calls
      /\ last.calls = 1 =>
           /\ last.env.transport = "timeout" => last.status = 504
           /\ last.env.transport = "error" => last.status = 502
           /\ (last.env.transport = "ok" /\ last.env.status_code = 404)
                => last.status = 404
           /\ (last.env.transport = "ok" /\ last.env.status_code = 401)
                => last.status = 502
           /\ (last.env.transport = "ok"
                 /\ last.env.status_code \notin {200, 401, 404})
                => /\ last.status = 502
                   /\ last.body.detail.arg = StatusText(last.env.status_code)
           /\ "json" \in Elems(last.trace)
                <=> (last.env.transport = "ok" /\ last.env.status_code = 200)

C10_Witness ==
    /\ IsCarrierCall
    /\ last.calls = 1
    /\ last.env.transport = "ok"
    /\ last.env.status_code = 401
    /\ last.status = 502
    /\ "json" \notin Elems(last.trace)

====
